---- MODULE Spec2Model ----
\* bibfixer: the per-entry revision pipeline of BibFixAgent.revise_bibtex
\* (parse, primary completion call, fallback completion call, output check)
\* and the loops of the two front ends that drive it (cli.py, app.py).
EXTENDS Integers, Sequences, FiniteSets, TLC

\* ---------------------------------------------------------------- bounds

\* Largest number of entries in an input document.
MaxEntries == 2

\* ---------------------------------------------------------------- values

\* A Python value that is either None or a str.  A str is a sequence of
\* characters over a small alphabet:
\*   " "            whitespace (what str.strip removes)
\*   "a".."e"       a well-formed entry with that citation key
\*   "r"            a well-formed entry written by the completion service
\*   "j"            text that is no BibTeX; the parser skips it
\*   "u"            an entry that uses an undefined @string macro; the
\*                  parser raises on it
None == [kind |-> "none", s |-> <<>>]

Str(s) == [kind |-> "str", s |-> s]

\* Variant of Truthy: `is None` in place of `not`, the empty str passes.
TruthyNoneOnly(v) == v.kind = "str"

\* Python truthiness of a None-or-str value (`if not revised_bibtex`).
Truthy(v) == v.kind = "str" /\ v.s # <<>>

KeyNames == <<"a", "b", "c", "d", "e">>

EntryChars == {KeyNames[i] : i \in DOMAIN KeyNames} \cup {"r"}

\* BibTexWriter.write of a database holding the single entry i: the entry
\* followed by a newline.
Dump(i) == Str(<<KeyNames[i], " ">>)

\* bibtexparser.loads raises: on a non-str argument and on an undefined macro.
LoadsRaises(v) == v.kind # "str" \/ \E k \in 1..Len(v.s) : v.s[k] = "u"

\* bibtexparser.loads(v).entries, for a v on which loads does not raise.
IsEntryChar(c) == c \in EntryChars

LoadsEntries(v) == SelectSeq(v.s, IsEntryChar)

\* str.strip(): drop leading and trailing whitespace.
SetMin(S) == CHOOSE x \in S : \A y \in S : x <= y

SetMax(S) == CHOOSE x \in S : \A y \in S : x >= y

Strip(s) ==
    LET ink == {k \in 1..Len(s) : s[k] # " "}
    IN  IF ink = {} THEN <<>> ELSE SubSeq(s, SetMin(ink), SetMax(ink))

\* "\n\n".join(segs) for a list of str values.
RECURSIVE Join(_)
Join(segs) ==
    IF Len(segs) = 0 THEN <<>>
    ELSE IF Len(segs) = 1 THEN segs[1].s
    ELSE segs[1].s \o <<" ", " ">> \o Join(Tail(segs))

\* Variant of ParseFails: without the `if not bib_database.entries` test.
ParseFailsOnRaiseOnly(v) == LoadsRaises(v)

\* parse_bibtex raises ValueError: loads raised, or it found no entry.
ParseFails(v) == LoadsRaises(v) \/ LoadsEntries(v) = <<>>

\* ------------------------------------------------- completion responses

CompletionTexts == {<<>>, <<" ">>, <<"j">>, <<"u">>, <<" ", "r", " ">>}

Contents == {None} \cup {Str(t) : t \in CompletionTexts}

TextItem(v) == [hasText |-> TRUE, text |-> v]

NoTextItem == [hasText |-> FALSE, text |-> None]

Message(c) == [type |-> "message", content |-> c]

Reasoning == [type |-> "reasoning", content |-> <<>>]

\* Responses of client.responses.create, by the attribute the extraction of
\* revise_bibtex finds first.
IterResponses ==
    { <<>>,
      <<Reasoning>>,
      <<Reasoning, Message(<<NoTextItem, TextItem(Str(<<"r">>)), TextItem(Str(<<"j">>))>>)>>,
      <<Message(<<>>), Message(<<TextItem(Str(<<"r">>))>>)>>,
      <<Message(<<NoTextItem>>)>>,
      <<Message(<<TextItem(Str(<<>>))>>)>> }

PrimaryResponses ==
    {[shape |-> "output_text", val |-> v, items |-> <<>>] : v \in Contents}
    \cup {[shape |-> "iter", val |-> None, items |-> it] : it \in IterResponses}
    \cup {[shape |-> "output", val |-> v, items |-> <<>>] : v \in Contents}
    \cup {[shape |-> "other", val |-> None, items |-> <<>>]}

\* The first content item of a message that has a text, or None.
FirstText(content) ==
    LET ts == {k \in 1..Len(content) : content[k].hasText}
    IN  IF ts = {} THEN None ELSE content[SetMin(ts)].text

\* The loop over an iterable response: the first item of type "message"
\* decides, whether or not it holds a text.
IterText(items) ==
    LET ms == {k \in 1..Len(items) : items[k].type = "message"}
    IN  IF ms = {} THEN None ELSE FirstText(items[SetMin(ms)].content)

\* The value revise_bibtex extracts from the primary response.
ExtractText(r) ==
    CASE r.shape = "output_text" -> r.val
      [] r.shape = "iter"        -> IterText(r.items)
      [] r.shape = "output"      -> r.val
      [] OTHER                   -> Str(<<"j">>)

\* Responses of client.chat.completions.create: a list of choices, each with
\* a message content.
FallbackResponses ==
    {[choices |-> <<>>]} \cup {[choices |-> <<[content |-> v]>>] : v \in Contents}

\* The strings revise_bibtex is called with through the library interface.
ApiInputs == {Str(<<>>), Str(<<"j">>), Str(<<"u">>), Str(<<" ">>), Dump(1)}

\* ----------------------------------------------------------------- state

VARIABLES
    front,      \* which caller drives the agent: "cli", "web" or "api"
    entries,    \* the text given to revise_bibtex for each input entry
    idx,        \* position of the loop over the entries (0 before the first)
    pc,         \* where control is
    prim,       \* outcome of the primary path of the current call
    fb,         \* outcome of the fallback path of the current call
    ret,        \* how the current call of revise_bibtex ended
    check,      \* the bibtexparser.loads check of the current call
    calls,      \* log of the completion calls made
    warnings,   \* number of "may not be valid BibTeX" warnings on stderr
    hist,       \* how revise_bibtex ended for each entry handled so far
    out,        \* revised_entries_text (cli) / revised_entries (web)
    shown       \* what the front end has put out at the end

vars == <<front, entries, idx, pc, prim, fb, ret, check, calls, warnings, hist, out, shown>>

NoPrim == [st |-> "none", val |-> None]

NoRet == [kind |-> "none", val |-> None]

NoCheck == [ran |-> FALSE, val |-> None, ok |-> FALSE]

NoShown == [kind |-> "none", text |-> <<>>]

N == Len(entries)

\* The cli and the web front end start before their loop; a caller of the
\* library interface is inside revise_bibtex with its one argument.
Init ==
    /\ front \in {"cli", "web", "api"}
    /\ \/ /\ front \in {"cli", "web"}
          /\ \E n \in 1..MaxEntries : entries = [i \in 1..n |-> Dump(i)]
          /\ idx = 0
          /\ pc = "loop"
       \/ /\ front = "api"
          /\ \E v \in ApiInputs : entries = <<v>>
          /\ idx = 1
          /\ pc = "parse"
    /\ prim = NoPrim
    /\ fb = NoPrim
    /\ ret = NoRet
    /\ check = NoCheck
    /\ calls = <<>>
    /\ warnings = 0
    /\ hist = <<>>
    /\ out = <<>>
    /\ shown = NoShown

\* ------------------------------------------------- BibFixAgent.revise_bibtex

\* parse_bibtex, the first statement of revise_bibtex: a ValueError leaves
\* revise_bibtex before its try block.
ParseBibtex ==
    /\ pc = "parse"
    /\ IF ParseFails(entries[idx])
          THEN /\ ret' = [kind |-> "ValueError", val |-> None]
               /\ pc' = "raised"
          ELSE /\ ret' = ret
               /\ pc' = "primary"
    /\ UNCHANGED <<front, entries, idx, prim, fb, check, calls, warnings, hist, out, shown>>

\* Variant of CheckAndReturn: the value is returned without the check.
ReturnUnchecked(v) ==
    /\ check' = check
    /\ warnings' = warnings
    /\ ret' = [kind |-> "return", val |-> v]
    /\ pc' = "returned"

\* bibtexparser.loads on the extracted value inside its own try/except, the
\* warning on stderr when it raises, and the return of the value either way.
CheckAndReturn(v) ==
    /\ check' = [ran |-> TRUE, val |-> v, ok |-> ~LoadsRaises(v)]
    /\ warnings' = IF LoadsRaises(v) THEN warnings + 1 ELSE warnings
    /\ ret' = [kind |-> "return", val |-> v]
    /\ pc' = "returned"

\* An exception inside the outer try block enters `except Exception as e`.
EnterFallback ==
    /\ pc' = "fallback"
    /\ UNCHANGED <<ret, check, warnings>>

\* The try block: client.responses.create, the extraction, the emptiness
\* test, the check and the return.
PrimaryCall ==
    /\ pc = "primary"
    /\ calls' = Append(calls, [api |-> "responses", entry |-> idx])
    /\ \/ /\ prim' = [st |-> "raised", val |-> None]
          /\ EnterFallback
       \/ \E r \in PrimaryResponses :
            LET v == ExtractText(r)
            IN  IF Truthy(v)
                  THEN /\ prim' = [st |-> "ok", val |-> v]
                       /\ CheckAndReturn(v)
                  ELSE /\ prim' = [st |-> "empty", val |-> v]
                       /\ EnterFallback
    /\ UNCHANGED <<front, entries, idx, fb, hist, out, shown>>

\* Variants of RaiseBothFailed: a failed fallback starts the primary call
\* again; a failed fallback returns None instead of raising.
RetryPrimary ==
    /\ ret' = ret
    /\ pc' = "primary"
    /\ UNCHANGED <<check, warnings>>

ReturnNoneOnFailure ==
    /\ ret' = [kind |-> "return", val |-> None]
    /\ pc' = "returned"
    /\ UNCHANGED <<check, warnings>>

\* `except Exception as e2`: the RuntimeError naming both failures.
RaiseBothFailed ==
    /\ ret' = [kind |-> "RuntimeError", val |-> None]
    /\ pc' = "raised"
    /\ UNCHANGED <<check, warnings>>

\* The except block: client.chat.completions.create, choices[0].message.content,
\* the check and the return.
FallbackCall ==
    /\ pc = "fallback"
    /\ calls' = Append(calls, [api |-> "chat", entry |-> idx])
    /\ \/ /\ fb' = [st |-> "raised", val |-> None]
          /\ RaiseBothFailed
       \/ \E r \in FallbackResponses :
            IF r.choices = <<>>
              THEN /\ fb' = [st |-> "nochoice", val |-> None]
                   /\ RaiseBothFailed
              ELSE /\ fb' = [st |-> "ok", val |-> r.choices[1].content]
                   /\ CheckAndReturn(r.choices[1].content)
    /\ UNCHANGED <<front, entries, idx, prim, hist, out, shown>>

\* ------------------------------------------------------------ cli.py main

\* Variant of CliNextEntry: the loop stops one entry early.
CliNextEntrySkipLast ==
    /\ front = "cli"
    /\ pc = "loop"
    /\ idx < N - 1
    /\ idx' = idx + 1
    /\ pc' = "parse"
    /\ prim' = NoPrim
    /\ fb' = NoPrim
    /\ ret' = NoRet
    /\ check' = NoCheck
    /\ UNCHANGED <<front, entries, calls, warnings, hist, out, shown>>

\* One more turn of `for idx, entry in enumerate(entries, start=1)`: dump the
\* entry and call agent.revise_bibtex on the dumped text.
CliNextEntry ==
    /\ front = "cli"
    /\ pc = "loop"
    /\ idx < N
    /\ idx' = idx + 1
    /\ pc' = "parse"
    /\ prim' = NoPrim
    /\ fb' = NoPrim
    /\ ret' = NoRet
    /\ check' = NoCheck
    /\ UNCHANGED <<front, entries, calls, warnings, hist, out, shown>>

\* Variant of CliTry: the revised text is put in front of the list.
CliTryPrepend ==
    /\ front = "cli"
    /\ pc = "returned"
    /\ IF ret.val.kind = "str"
          THEN /\ out' = <<Str(Strip(ret.val.s))>> \o out
               /\ hist' = Append(hist, ret)
               /\ pc' = "loop"
          ELSE /\ pc' = "strip_raised"
               /\ UNCHANGED <<out, hist>>
    /\ UNCHANGED <<front, entries, idx, prim, fb, ret, check, calls, warnings, shown>>

\* revise_bibtex returned: append the stripped text.  None has no strip, so
\* the AttributeError goes to the except clause with nothing appended.
CliTry ==
    /\ front = "cli"
    /\ pc = "returned"
    /\ IF ret.val.kind = "str"
          THEN /\ out' = Append(out, Str(Strip(ret.val.s)))
               /\ hist' = Append(hist, ret)
               /\ pc' = "loop"
          ELSE /\ pc' = "strip_raised"
               /\ UNCHANGED <<out, hist>>
    /\ UNCHANGED <<front, entries, idx, prim, fb, ret, check, calls, warnings, shown>>

\* Variant of CliExcept: the first failure ends the run.
CliExceptExit ==
    /\ front = "cli"
    /\ pc \in {"raised", "strip_raised"}
    /\ hist' = Append(hist, ret)
    /\ shown' = [kind |-> "error", text |-> <<>>]
    /\ pc' = "done"
    /\ UNCHANGED <<front, entries, idx, prim, fb, ret, check, calls, warnings, out>>

\* `except Exception as e`: keep the original entry text.
CliExcept ==
    /\ front = "cli"
    /\ pc \in {"raised", "strip_raised"}
    /\ out' = Append(out, Str(Strip(entries[idx].s)))
    /\ hist' = Append(hist, ret)
    /\ pc' = "loop"
    /\ UNCHANGED <<front, entries, idx, prim, fb, ret, check, calls, warnings, shown>>

\* After the loop: combined = "\n\n".join(revised_entries_text) + "\n".
CliJoin ==
    /\ front = "cli"
    /\ pc = "loop"
    /\ idx = N
    /\ shown' = [kind |-> "text", text |-> Join(out) \o <<" ">>]
    /\ pc' = "done"
    /\ UNCHANGED <<front, entries, idx, prim, fb, ret, check, calls, warnings, hist, out>>

\* ------------------------------------------------------------------ app.py

\* One more turn of `for i, entry in enumerate(db.entries)`.
WebNextEntry ==
    /\ front = "web"
    /\ pc = "loop"
    /\ idx < N
    /\ idx' = idx + 1
    /\ pc' = "parse"
    /\ prim' = NoPrim
    /\ fb' = NoPrim
    /\ ret' = NoRet
    /\ check' = NoCheck
    /\ UNCHANGED <<front, entries, calls, warnings, hist, out, shown>>

\* revise_bibtex returned: revised_entries.append(revised_entry_text).
WebAppend ==
    /\ front = "web"
    /\ pc = "returned"
    /\ out' = Append(out, ret.val)
    /\ hist' = Append(hist, ret)
    /\ pc' = "loop"
    /\ UNCHANGED <<front, entries, idx, prim, fb, ret, check, calls, warnings, shown>>

\* revise_bibtex raised: there is no handler inside the loop, the exception
\* reaches the `except Exception as e` around the whole run, which shows the
\* error and nothing else.
WebExcept ==
    /\ front = "web"
    /\ pc = "raised"
    /\ hist' = Append(hist, ret)
    /\ shown' = [kind |-> "error", text |-> <<>>]
    /\ pc' = "done"
    /\ UNCHANGED <<front, entries, idx, prim, fb, ret, check, calls, warnings, out>>

\* After the loop: combined = "\n\n".join(revised_entries), shown in the
\* text area; join raises TypeError on a None element, which the same outer
\* handler turns into the error message.
WebJoin ==
    /\ front = "web"
    /\ pc = "loop"
    /\ idx = N
    /\ IF \E k \in 1..Len(out) : out[k].kind # "str"
          THEN shown' = [kind |-> "error", text |-> <<>>]
          ELSE shown' = [kind |-> "text", text |-> Join(out)]
    /\ pc' = "done"
    /\ UNCHANGED <<front, entries, idx, prim, fb, ret, check, calls, warnings, hist, out>>

\* ------------------------------------------------------------ specification

Next ==
    \/ ParseBibtex
    \/ PrimaryCall
    \/ FallbackCall
    \/ CliNextEntry
    \/ CliTry
    \/ CliExcept
    \/ CliJoin
    \/ WebNextEntry
    \/ WebAppend
    \/ WebExcept
    \/ WebJoin

Spec == Init /\ [][Next]_vars

\* Every statement of the pipeline ends: the interpreter runs the next one, and
\* a completion call returns or raises (the HTTP client has a timeout).
FairSpec == Spec /\ WF_vars(Next)

\* ------------------------------------------------------------------ claims

\* Number of completion calls of one kind logged for entry i.
CallsFor(i, api) == Cardinality({k \in 1..Len(calls) : calls[k].entry = i /\ calls[k].api = api})

NonEmptyText(v) == v.kind = "str" /\ Len(v.s) > 0

\* revise_bibtex has just ended for entry idx.
CallEnded == pc \in {"returned", "raised"}

\* The primary path failed: the call raised, or it answered and no non-empty
\* text came out of the answer.
PrimaryFailed ==
    \/ prim.st = "raised"
    \/ prim.st \in {"ok", "empty"} /\ ~NonEmptyText(prim.val)

\* The fallback path failed: the call raised or its answer held no choice.
FallbackFailed == fb.st \in {"raised", "nochoice"}

\* The text given to revise_bibtex holds no parseable entry.
NoParseableEntry(v) ==
    \/ v.kind # "str"
    \/ \E k \in 1..Len(v.s) : v.s[k] = "u"
    \/ \A k \in 1..Len(v.s) : v.s[k] \notin EntryChars

\* C1: the fallback call is made for an entry if and only if the primary call
\* for that entry failed (it raised, or no non-empty text was extracted); it
\* is never made before the primary call and never after a primary call that
\* gave a non-empty text.
C1_FallbackIffPrimaryFailed ==
    /\ idx >= 1 /\ CallsFor(idx, "chat") > 0 => PrimaryFailed
    /\ idx >= 1 /\ CallEnded /\ PrimaryFailed => CallsFor(idx, "chat") > 0
    /\ \A k \in 1..Len(calls) :
          calls[k].api = "chat" =>
              k > 1 /\ calls[k - 1] = [api |-> "responses", entry |-> calls[k].entry]

C1_Witness ==
    /\ pc = "returned"
    /\ prim.st = "empty"
    /\ prim.val = Str(<<>>)
    /\ CallsFor(idx, "chat") = 1

\* C2: one call of revise_bibtex makes the primary call at most once and the
\* fallback call at most once, whatever their outcomes.
C2_AtMostOneCallEach ==
    \A i \in 1..N : CallsFor(i, "responses") <= 1 /\ CallsFor(i, "chat") <= 1

C2_Witness ==
    /\ pc = "raised"
    /\ prim.st = "raised"
    /\ fb.st = "raised"
    /\ CallsFor(idx, "responses") = 1
    /\ CallsFor(idx, "chat") = 1

\* C3 as stated: every value revise_bibtex returns has passed the
\* bibtexparser.loads check.
C3_ReturnedPassedCheck ==
    pc = "returned" => check.ran /\ check.val = ret.val /\ check.ok

\* C3 as amended: on both paths the check is run on the very value that is
\* returned, and a value that fails it is returned all the same after one
\* more warning on stderr.
C3_CheckedButAdvisory ==
    pc = "returned" =>
        /\ check.ran
        /\ check.val = ret.val
        /\ ~check.ok => warnings >= 1

C3_Witness ==
    /\ pc = "returned"
    /\ fb.st = "ok"
    /\ ret.val = Str(<<"u">>)
    /\ check.ran
    /\ ~check.ok

\* What the cli keeps for entry i: the stripped revised text when
\* revise_bibtex returned a str, the stripped original text otherwise.
RevisedOrOriginal(i) ==
    IF hist[i].kind = "return" /\ hist[i].val.kind = "str"
      THEN Str(Strip(hist[i].val.s))
      ELSE Str(Strip(entries[i].s))

\* C4: when the cli loop has finished, the joined document is made of exactly
\* N segments in input order, segment i being the revised or the original
\* text of entry i.
C4_OneSegmentPerEntry ==
    front = "cli" /\ pc = "done" =>
        /\ Len(hist) = N
        /\ Len(out) = N
        /\ \A i \in 1..N : out[i] = RevisedOrOriginal(i)
        /\ shown.kind = "text"
        /\ shown.text = Join([i \in 1..N |-> RevisedOrOriginal(i)]) \o <<" ">>

C4_Witness ==
    /\ front = "cli"
    /\ pc = "done"
    /\ N = 2
    /\ hist[1].kind = "RuntimeError"
    /\ hist[2] = [kind |-> "return", val |-> Str(<<" ", "r", " ">>)]
    /\ out = <<Str(<<"a">>), Str(<<"r">>)>>

\* Revising entry i ended in an exception inside the try block of the cli.
Failed(i) == hist[i].kind # "return" \/ hist[i].val.kind # "str"

C5_Kept ==
    front = "cli" =>
        /\ Len(out) = Len(hist)
        /\ \A i \in 1..Len(hist) : Failed(i) => out[i] = Str(Strip(entries[i].s))
        /\ pc = "done" => Len(hist) = N

C5_Continues ==
    front = "cli" /\ pc \in {"raised", "strip_raised"} =>
        /\ pc' = "loop"
        /\ SubSeq(out', 1, Len(out)) = out
        /\ idx' = idx
        /\ Len(hist') = idx

\* C5: in the cli a failure of entry i keeps the original text of entry i in
\* position i, leaves the segments before it as they were, and the loop goes
\* on with entry i+1.
C5_FailureKeepsOriginal == []C5_Kept /\ [][C5_Continues]_vars

C5_Witness ==
    /\ front = "cli"
    /\ idx = 2
    /\ pc = "primary"
    /\ hist[1].kind = "RuntimeError"
    /\ out = <<Str(<<"a">>)>>

\* C6: in the web front end a failure of one entry does not keep the other
\* entries from being processed and does not remove the revised texts
\* obtained so far from what is displayed.
C6_WebEntriesIndependent ==
    front = "web" /\ pc = "done" =>
        /\ Len(hist) = N
        /\ (\E i \in 1..Len(hist) : ~Failed(i)) => shown.kind = "text"

\* C7: a text with no parseable entry makes revise_bibtex end with ValueError
\* and without any completion call for it.
C7_ParseBeforeCalls ==
    idx >= 1 /\ pc # "parse" /\ NoParseableEntry(entries[idx]) =>
        /\ pc = "raised"
        /\ ret.kind = "ValueError"
        /\ CallsFor(idx, "responses") = 0
        /\ CallsFor(idx, "chat") = 0

C7_Witness ==
    /\ front = "api"
    /\ entries = <<Str(<<"j">>)>>
    /\ pc = "raised"
    /\ ret.kind = "ValueError"
    /\ calls = <<>>

\* C8: after a successful parse revise_bibtex ends with the RuntimeError if
\* and only if the primary and the fallback path both failed; otherwise it
\* returns a value.
C8_ErrorIffBothFailed ==
    idx >= 1 /\ CallEnded /\ ~NoParseableEntry(entries[idx]) =>
        /\ ret.kind = "RuntimeError" <=> PrimaryFailed /\ FallbackFailed
        /\ ret.kind # "RuntimeError" => ret.kind = "return"

C8_Witness ==
    /\ pc = "raised"
    /\ ret.kind = "RuntimeError"
    /\ prim.st = "empty"
    /\ fb.st = "nochoice"

C9_Sequential ==
    front = "cli" =>
        /\ idx <= N
        /\ Len(hist) = IF pc \in {"loop", "done"} THEN idx ELSE idx - 1
        /\ \A k \in 1..Len(calls) : calls[k].entry <= idx
        /\ \A j, k \in 1..Len(calls) : j < k => calls[j].entry <= calls[k].entry
        /\ Len(calls) <= 2 * idx
        /\ pc = "done" => idx = N

\* C9: the cli handles the N entries one at a time in input order, each once,
\* entry i+1 only after entry i has ended; the loop ends after N turns and
\* the run makes at most 2N completion calls.
C9_InOrderOnceAndTerminates ==
    /\ []C9_Sequential
    /\ front = "cli" => <>(pc = "done" /\ idx = N /\ Len(calls) <= 2 * N)

C9_Witness ==
    /\ front = "cli"
    /\ pc = "done"
    /\ N = 2
    /\ Len(calls) = 4

\* C10: a value revise_bibtex returns is a non-empty text, never an empty or
\* missing completion content.
C10_ReturnsNonEmptyText ==
    pc = "returned" => ret.val.kind = "str" /\ ret.val.s # <<>>

====
